---- MODULE Spec2Model ----
(***************************************************************************)
(* BlocklyManager of jupyterlab-blockly: the per-document manager that     *)
(* selects a toolbox, keeps the list of allowed blocks and annotates the   *)
(* selected toolbox tree in place (hidden / disabled / disabledReasons),   *)
(* follows the session's kernel to pick a generator, and is read and       *)
(* driven by the BlocklyPanel that loads and saves the document.           *)
(*                                                                         *)
(* The repository holds two versions of the class:                         *)
(*   src/packages/blockly/src/manager.ts  (build "manager.ts")             *)
(*   src/unnamed/part_000                 (build "part_000")               *)
(* They agree on everything but _filterContents.  The variable `build`     *)
(* fixes, for a whole behaviour, which of the two is running.              *)
(*                                                                         *)
(* Four specifications share the actions:                                  *)
(*   Spec          the setters, over every small "default" toolbox;        *)
(*   KernelSpec    the setters, selectKernel, dispose, the session's       *)
(*                 kernelChanged notifications and registerGenerator;      *)
(*   DocumentSpec  the panel's _load and _onSave over every kind of        *)
(*                 document, with the session's notifications;             *)
(*   SharedSpec    the setters of two managers constructed over the same   *)
(*                 registry.                                               *)
(*                                                                         *)
(* JavaScript values are written as strings: Undefined is a missing        *)
(* property, BoolTrue/BoolFalse the booleans, StrTrue/StrFalse the strings *)
(* "true"/"false".  An object's own property names are its `keys`.         *)
(***************************************************************************)
EXTENDS Naturals, Sequences, FiniteSets

VARIABLES
  build,           \* which version of the class is running
  _registry,       \* BlocklyRegistry: toolboxes, a map name -> ToolboxInfo
  _generators,     \* BlocklyRegistry: the languages a generator is registered for
  _toolbox,        \* BlocklyManager._toolbox: name of the selected toolbox
  _allowedBlocks,  \* BlocklyManager._allowedBlocks: undefined or a list
  _selectedKernel, \* BlocklyManager._selectedKernel: a kernel spec, or undefined
  _generator,      \* BlocklyManager._generator: a generator, or undefined
  connected,       \* _onKernelChanged is connected to sessionContext.kernelChanged
  requests,        \* sessionContext: the changeKernel requests not yet confirmed
  returned,        \* what the last top-level _filterContents call returned
  emitted,         \* what _changed emitted during the last call, in order
  seen,            \* what a listener read from the manager at each of them
  lastCall,        \* the last call or session notification, with what it saw
  pc,              \* BlocklyPanel: "ready" until _load has run, then "loaded"
  model,           \* BlocklyPanel._context.model: the document's JSON content
  workspace,       \* BlocklyLayout.workspace: the workspace state
  reports,         \* what _load showed the user or logged, in order
  calls,           \* the manager's methods _load called, in order
  managerB         \* a second BlocklyManager constructed over the same registry

vars ==
  <<build, _registry, _generators, _toolbox, _allowedBlocks, _selectedKernel,
    _generator, connected, requests, returned, emitted, seen, lastCall,
    pc, model, workspace, reports, calls, managerB>>

----------------------------------------------------------------------------
(* Bounds *)

\* Most nodes (categories, blocks, separators) of the "default" toolbox.
MaxNodes == 2

\* Most changeKernel requests pending at the session at once.
MaxRequests == 2

----------------------------------------------------------------------------
(* JavaScript values *)

Undefined == "undefined"
BoolTrue  == "true"
BoolFalse == "false"
StrTrue   == "'true'"
StrFalse  == "'false'"

Builds == {"manager.ts", "part_000"}

\* String.prototype.toUpperCase on the kind strings of the model.
toUpperCase(s) ==
  CASE s = "category" -> "CATEGORY"
    [] s = "block"    -> "BLOCK"
    [] s = "sep"      -> "SEP"
    [] s = "label"    -> "LABEL"
    [] OTHER          -> s

\* String.prototype.toLowerCase on the type and custom strings of the model.
toLowerCase(s) ==
  CASE s = "B" -> "b"
    [] s = "V" -> "v"
    [] OTHER   -> s

----------------------------------------------------------------------------
(* Toolbox items (blockly/core/utils/toolbox) *)

Item(keys, kind, type, custom, contents) ==
  [keys |-> keys, kind |-> kind, type |-> type, custom |-> custom,
   contents |-> contents, hidden |-> Undefined, disabled |-> Undefined,
   disabledReasons |-> <<>>]

\* A toolbox is written with its kinds all in lower case or all in upper case.
KindCases == {"lower", "upper"}
Kind(kc, k) == IF kc = "upper" THEN toUpperCase(k) ELSE k

BlockInfo(kc, type) ==
  Item({"kind", "type"}, Kind(kc, "block"), type, Undefined, <<>>)
DynamicCategoryInfo(kc, custom) ==
  Item({"kind", "name", "custom"}, Kind(kc, "category"), Undefined, custom, <<>>)
SeparatorInfo(kc) ==
  Item({"kind"}, Kind(kc, "sep"), Undefined, Undefined, <<>>)
StaticCategoryInfo(kc, contents) ==
  Item({"kind", "name", "contents"}, Kind(kc, "category"), Undefined,
       Undefined, contents)
\* A node the filter has no branch for: Blockly's label, {kind, text}.
LabelInfo(kc) ==
  Item({"kind", "text"}, Kind(kc, "label"), Undefined, Undefined, <<>>)

IsStaticCategory(item)  == "contents" \in item.keys
IsBlock(item)           == "type" \in item.keys
IsDynamicCategory(item) == "custom" \in item.keys
IsSeparator(item)       == toUpperCase(item.kind) = "SEP"

BlockTypes == {"a", "B"}
Customs    == {"V"}

Leaves(kc) ==
  {BlockInfo(kc, t) : t \in BlockTypes}
    \cup {DynamicCategoryInfo(kc, c) : c \in Customs}
    \cup {SeparatorInfo(kc)}

RECURSIVE Size(_)
RECURSIVE SizeAll(_)
Size(item) == 1 + SizeAll(item.contents)
SizeAll(contents) ==
  IF contents = <<>> THEN 0
  ELSE Size(Head(contents)) + SizeAll(Tail(contents))

\* The contents lists, of the given kind case, with at most n nodes.
RECURSIVE Forests(_, _)
Items(kc, n) ==
  IF n = 0 THEN {}
  ELSE Leaves(kc) \cup {StaticCategoryInfo(kc, c) : c \in Forests(kc, n - 1)}
Forests(kc, n) ==
  {<<>>} \cup
  UNION {{<<t>> \o f : f \in Forests(kc, n - Size(t))} : t \in Items(kc, n)}

\* The second toolbox: a category holding two blocks, and a category holding
\* the list [Block A, Sep, Block B, Sep, Block C].
SeparatorExample(kc) ==
  <<BlockInfo(kc, "a"), SeparatorInfo(kc), BlockInfo(kc, "B"),
    SeparatorInfo(kc), BlockInfo(kc, "c")>>
OtherToolbox(kc) ==
  <<StaticCategoryInfo(kc, <<BlockInfo(kc, "a"), BlockInfo(kc, "B")>>),
    StaticCategoryInfo(kc, SeparatorExample(kc))>>

ToolboxInfo(contents) ==
  [kind |-> "categoryToolbox", contents |-> contents]

\* The names the registry holds, and one it does not.
ToolboxNames == {"default", "other"}
UnknownNames == {"nonexistent"}

\* Allow-lists hold lower-case identifiers, and only membership is ever read:
\* undefined, every list over AllowIds, and the list ["c"].
AllowIds == {"a", "b", "v"}
AllowLists ==
  {[undefined |-> TRUE, blocks |-> {}]} \cup
  {[undefined |-> FALSE, blocks |-> s] : s \in (SUBSET AllowIds) \cup {{"c"}}}

includes(allowedBlocks, s) == s \in allowedBlocks.blocks

----------------------------------------------------------------------------
(* _filterContents, both versions *)

RECURSIVE _filterContents(_, _)
RECURSIVE _filterContents_part000(_, _)

\* forEachItem with the reason pushed onto disabledReasons, not assigned.
forEachItem_pushesReason(itemInfo, allowedBlocks) ==
  IF "kind" \in itemInfo.keys THEN
    IF toUpperCase(itemInfo.kind) = "CATEGORY" THEN
      IF "contents" \in itemInfo.keys THEN
        LET r == _filterContents(itemInfo.contents, allowedBlocks) IN
        [item |-> [itemInfo EXCEPT
                     !.contents = r.contents,
                     !.hidden = IF r.visible > 0 THEN StrFalse ELSE StrTrue,
                     !.keys = @ \cup {"hidden"}],
         inc |-> IF r.visible > 0 THEN 1 ELSE 0]
      ELSE IF "custom" \in itemInfo.keys THEN
        LET ok == allowedBlocks.undefined
                  \/ includes(allowedBlocks, toLowerCase(itemInfo.custom)) IN
        [item |-> [itemInfo EXCEPT
                     !.hidden = IF ok THEN StrFalse ELSE StrTrue,
                     !.keys = @ \cup {"hidden"}],
         inc |-> IF ok THEN 1 ELSE 0]
      ELSE [item |-> itemInfo, inc |-> 0]
    ELSE IF toUpperCase(itemInfo.kind) = "BLOCK" THEN
      IF allowedBlocks.undefined
         \/ includes(allowedBlocks, toLowerCase(itemInfo.type))
        THEN [item |-> [itemInfo EXCEPT
                          !.disabled = BoolFalse,
                          !.disabledReasons = <<>>,
                          !.keys = @ \cup {"disabled", "disabledReasons"}],
              inc |-> 1]
        ELSE [item |-> [itemInfo EXCEPT
                          !.disabled = BoolTrue,
                          !.disabledReasons =
                             Append(@, "This block is not allowed"),
                          !.keys = @ \cup {"disabled", "disabledReasons"}],
              inc |-> 0]
    ELSE [item |-> itemInfo, inc |-> 0]
  ELSE [item |-> itemInfo, inc |-> 0]

\* manager.ts: one pass of the forEach callback over itemInfo.
\* Returns the item as annotated and what it adds to `visible`.
forEachItem(itemInfo, allowedBlocks) ==
  IF "kind" \in itemInfo.keys THEN
    IF toUpperCase(itemInfo.kind) = "CATEGORY" THEN
      IF "contents" \in itemInfo.keys THEN
        LET r == _filterContents(itemInfo.contents, allowedBlocks) IN
        IF r.visible > 0
          THEN [item |-> [itemInfo EXCEPT !.contents = r.contents,
                                          !.hidden = StrFalse,
                                          !.keys = @ \cup {"hidden"}],
                inc |-> 1]
          ELSE [item |-> [itemInfo EXCEPT !.contents = r.contents,
                                          !.hidden = StrTrue,
                                          !.keys = @ \cup {"hidden"}],
                inc |-> 0]
      ELSE IF "custom" \in itemInfo.keys THEN
        IF allowedBlocks.undefined
           \/ includes(allowedBlocks, toLowerCase(itemInfo.custom))
          THEN [item |-> [itemInfo EXCEPT !.hidden = StrFalse,
                                          !.keys = @ \cup {"hidden"}],
                inc |-> 1]
          ELSE [item |-> [itemInfo EXCEPT !.hidden = StrTrue,
                                          !.keys = @ \cup {"hidden"}],
                inc |-> 0]
      ELSE [item |-> itemInfo, inc |-> 0]
    ELSE IF toUpperCase(itemInfo.kind) = "BLOCK" THEN
      IF allowedBlocks.undefined
         \/ includes(allowedBlocks, toLowerCase(itemInfo.type))
        THEN [item |-> [itemInfo EXCEPT
                          !.disabled = BoolFalse,
                          !.disabledReasons = <<>>,
                          !.keys = @ \cup {"disabled", "disabledReasons"}],
              inc |-> 1]
        ELSE [item |-> [itemInfo EXCEPT
                          !.disabled = BoolTrue,
                          !.disabledReasons = <<"This block is not allowed">>,
                          !.keys = @ \cup {"disabled", "disabledReasons"}],
              inc |-> 0]
    ELSE [item |-> itemInfo, inc |-> 0]
  ELSE [item |-> itemInfo, inc |-> 0]

RECURSIVE forEach(_, _, _, _)
forEach(contents, i, acc, allowedBlocks) ==
  IF i > Len(contents) THEN acc
  ELSE LET r == forEachItem(contents[i], allowedBlocks) IN
       forEach(contents, i + 1,
               [contents |-> Append(acc.contents, r.item),
                visible |-> acc.visible + r.inc],
               allowedBlocks)

\* manager.ts _filterContents: the list as annotated, and the count returned.
_filterContents(contents, allowedBlocks) ==
  forEach(contents, 1, [contents |-> <<>>, visible |-> 0], allowedBlocks)

\* part_000: one pass of the forEach callback; acc carries `visible` and
\* `lastSeparator`.
forEachItem_part000(itemInfo, acc, allowedBlocks) ==
  IF "contents" \in itemInfo.keys THEN
    LET r == _filterContents_part000(itemInfo.contents, allowedBlocks) IN
    IF r.visible > 0
      THEN [item |-> [itemInfo EXCEPT !.contents = r.contents,
                                      !.hidden = StrFalse,
                                      !.keys = @ \cup {"hidden"}],
            visible |-> acc.visible + 1,
            lastSeparator |-> acc.lastSeparator]
      ELSE [item |-> [itemInfo EXCEPT !.contents = r.contents,
                                      !.hidden = StrTrue,
                                      !.keys = @ \cup {"hidden"}],
            visible |-> acc.visible,
            lastSeparator |-> acc.lastSeparator]
  ELSE IF "type" \in itemInfo.keys THEN
    IF allowedBlocks.undefined \/ includes(allowedBlocks, itemInfo.type)
      THEN [item |-> [itemInfo EXCEPT
                        !.disabled = BoolFalse,
                        !.disabledReasons = <<>>,
                        !.keys = @ \cup {"disabled", "disabledReasons"}],
            visible |-> acc.visible + 1,
            lastSeparator |-> acc.lastSeparator]
      ELSE [item |-> [itemInfo EXCEPT
                        !.disabled = BoolTrue,
                        !.disabledReasons = <<"This block is not allowed">>,
                        !.keys = @ \cup {"disabled", "disabledReasons"}],
            visible |-> acc.visible,
            lastSeparator |-> acc.lastSeparator]
  ELSE IF "kind" \in itemInfo.keys /\ itemInfo.kind = "CATEGORY"
          /\ "custom" \in itemInfo.keys THEN
    IF allowedBlocks.undefined \/ includes(allowedBlocks, itemInfo.custom)
      THEN [item |-> [itemInfo EXCEPT !.disabled = StrFalse,
                                      !.keys = @ \cup {"disabled"}],
            visible |-> acc.visible + 1,
            lastSeparator |-> acc.lastSeparator]
      ELSE [item |-> [itemInfo EXCEPT !.disabled = StrTrue,
                                      !.keys = @ \cup {"disabled"}],
            visible |-> acc.visible,
            lastSeparator |-> acc.lastSeparator]
  ELSE IF "kind" \in itemInfo.keys /\ itemInfo.kind = "SEP" THEN
    IF acc.lastSeparator = acc.visible
      THEN [item |-> [itemInfo EXCEPT !.hidden = BoolTrue,
                                      !.keys = @ \cup {"hidden"}],
            visible |-> acc.visible,
            lastSeparator |-> acc.lastSeparator]
      ELSE [item |-> itemInfo,
            visible |-> acc.visible,
            lastSeparator |-> acc.visible]
  ELSE [item |-> itemInfo, visible |-> acc.visible,
        lastSeparator |-> acc.lastSeparator]

RECURSIVE forEach_part000(_, _, _, _)
forEach_part000(contents, i, acc, allowedBlocks) ==
  IF i > Len(contents) THEN acc
  ELSE LET r == forEachItem_part000(contents[i], acc, allowedBlocks) IN
       forEach_part000(contents, i + 1,
                       [contents |-> Append(acc.contents, r.item),
                        visible |-> r.visible,
                        lastSeparator |-> r.lastSeparator],
                       allowedBlocks)

\* part_000 _filterContents: the list as annotated, and the count returned.
_filterContents_part000(contents, allowedBlocks) ==
  LET r == forEach_part000(contents, 1,
             [contents |-> <<>>, visible |-> 0, lastSeparator |-> 0],
             allowedBlocks)
  IN [contents |-> r.contents, visible |-> r.visible]

\* The _filterContents of the running version.
filterContents(b, contents, allowedBlocks) ==
  IF b = "manager.ts" THEN _filterContents(contents, allowedBlocks)
  ELSE _filterContents_part000(contents, allowedBlocks)

\* _filterToolbox annotating a copy of the tree, not the registry's tree.
_filterToolbox_onCopy(b, registry, name, allowedBlocks, was) ==
  IF name \in DOMAIN registry.toolboxes THEN
    LET r == filterContents(b, registry.toolboxes[name].contents,
                            allowedBlocks) IN
    [registry |-> registry, returned |-> r.visible]
  ELSE [registry |-> registry, returned |-> was]

\* _filterToolbox: the registry after the toolbox named `name` was filtered
\* in place, and what the _filterContents call returned (`was` if the name is
\* not registered and nothing is called).
_filterToolbox(b, registry, name, allowedBlocks, was) ==
  IF name \in DOMAIN registry.toolboxes THEN
    LET r == filterContents(b, registry.toolboxes[name].contents,
                            allowedBlocks) IN
    [registry |-> [registry EXCEPT !.toolboxes[name].contents = r.contents],
     returned |-> r.visible]
  ELSE [registry |-> registry, returned |-> was]

----------------------------------------------------------------------------
(* The session, the generators and the document *)

Null == "null"

\* sessionContext.specsManager.specs.kernelspecs: kernel name -> ISpecModel.
ISpecModel(name, display_name, language) ==
  [name |-> name, display_name |-> display_name, language |-> language]
kernelspecs ==
  [n \in {"python3", "ir"} |->
     IF n = "python3" THEN ISpecModel("python3", "Python 3", "python")
     ELSE ISpecModel("ir", "R", "r")]

\* _selectedKernel before any kernel was selected.
UndefinedKernel == ISpecModel(Undefined, Undefined, Undefined)

\* The kernel names the session is asked for or reports: those of the
\* catalog and one the catalog does not hold.
KernelNames == DOMAIN kernelspecs \cup {"ghost"}

\* The languages a generator can be registered for; the generator of a
\* language is written as the language.
Languages == {"python", "r"}

\* this._registry.generators.has(language) and .get(language)
generators_has(language) == language \in _generators
generators_get(language) ==
  IF language \in _generators THEN language ELSE Undefined

\* A document's JSON content.  format is "2" for the number 2, "1" for the
\* number 1 and "'2'" for the string "2"; blocks is "truthy" for an object
\* and "falsy" for null; workspace is a workspace state.
WorkspaceState(blocks) == [keys |-> {"blocks"}, blocks |-> blocks]
UndefinedWorkspace == [keys |-> {}, blocks |-> Undefined]
Metadata(keys, tb, k) == [keys |-> keys, toolbox |-> tb, kernel |-> k]
NoMetadata == Metadata({}, Undefined, Undefined)
FileContent(keys, format, blocks, ws, metadata) ==
  [keys |-> keys, format |-> format, blocks |-> blocks, workspace |-> ws,
   metadata |-> metadata]
EmptyContent ==
  FileContent({}, Undefined, Undefined, UndefinedWorkspace, NoMetadata)

----------------------------------------------------------------------------
(* The manager *)

\* get toolbox(): the selected toolbox.
toolbox == _registry.toolboxes[_toolbox]

\* get kernel(): this._selectedKernel?.name || 'No kernel'
kernel ==
  IF _selectedKernel = UndefinedKernel \/ _selectedKernel.name = ""
    THEN "No kernel" ELSE _selectedKernel.name

\* What a listener of `changed` reads from the manager while it handles a
\* notification: getToolbox(), getAllowedBlocks(), toolbox, kernel, generator.
Listener ==
  [toolbox |-> _toolbox, allowedBlocks |-> _allowedBlocks,
   contents |-> IF _toolbox \in DOMAIN _registry.toolboxes
                THEN toolbox.contents ELSE <<>>,
   kernel |-> kernel, generator |-> _generator]

\* The variables of the session and the panel, which no setter touches.
sessionVars == <<requests, pc, model, workspace, reports, calls, managerB>>

\* The rest of the constructor: the generator for 'python', the connection
\* to kernelChanged; no kernel is selected.
constructor ==
  /\ _toolbox = "default"
  /\ _allowedBlocks = [undefined |-> TRUE, blocks |-> {}]
  /\ _selectedKernel = UndefinedKernel
  /\ _generator = generators_get("python")
  /\ connected = TRUE
  /\ emitted = <<>>
  /\ seen = <<>>
  /\ lastCall = [op |-> "constructor", name |-> Undefined, was |-> Undefined]

\* The fields of a second manager: its _toolbox, its _allowedBlocks and what
\* its own _changed emitted during its last call.
Manager(name, allowedBlocks, emits) ==
  [_toolbox |-> name, _allowedBlocks |-> allowedBlocks, emitted |-> emits]

\* No second manager was constructed.
NoManager == Manager(Undefined, [undefined |-> TRUE, blocks |-> {}], <<>>)

\* A session with no request pending and a panel that has not loaded yet.
NewSession ==
  /\ requests = <<>>
  /\ pc = "ready"
  /\ workspace = UndefinedWorkspace
  /\ reports = <<>>
  /\ calls = <<>>

\* The registry a manager is constructed over.
RegistryOf(kc, f) ==
  [toolboxes |-> [n \in ToolboxNames |->
     IF n = "default" THEN ToolboxInfo(f)
     ELSE ToolboxInfo(OtherToolbox(kc))]]
Registries ==
  UNION {{RegistryOf(kc, f) : f \in Forests(kc, MaxNodes)} : kc \in KindCases}

\* new BlocklyManager(registry, sessionContext, mimetypeService)
Init ==
  /\ build \in Builds
  /\ \E registry \in Registries :
       LET r == _filterToolbox(build, registry, "default",
                               [undefined |-> TRUE, blocks |-> {}], 0) IN
       _registry = r.registry /\ returned = r.returned
  /\ _generators = {"python"}
  /\ constructor
  /\ NewSession
  /\ model = EmptyContent
  /\ managerB = NoManager

\* setToolbox without the early return for the current name.
setToolbox_withoutGuard(name) ==
  LET resolved == IF name \in DOMAIN _registry.toolboxes
                  THEN name ELSE "default" IN
  /\ lastCall' = [op |-> "setToolbox", name |-> name, was |-> _toolbox]
  /\ _toolbox' = resolved
  /\ LET r == _filterToolbox(build, _registry, resolved, _allowedBlocks,
                             returned) IN
     _registry' = r.registry /\ returned' = r.returned
  /\ UNCHANGED <<build, _allowedBlocks, _generators, _selectedKernel,
                 _generator, connected>>
  /\ emitted' = <<"toolbox">>
  /\ seen' = <<Listener'>>

\* setToolbox comparing the current name with the resolved name.
setToolbox_comparesResolved(name) ==
  LET resolved == IF name \in DOMAIN _registry.toolboxes
                  THEN name ELSE "default" IN
  /\ lastCall' = [op |-> "setToolbox", name |-> name, was |-> _toolbox]
  /\ UNCHANGED <<build, _allowedBlocks, _generators, _selectedKernel,
                 _generator, connected>>
  /\ IF _toolbox # resolved THEN
       /\ _toolbox' = resolved
       /\ LET r == _filterToolbox(build, _registry, resolved, _allowedBlocks,
                                  returned) IN
          _registry' = r.registry /\ returned' = r.returned
       /\ emitted' = <<"toolbox">>
       /\ seen' = <<Listener'>>
     ELSE
       /\ emitted' = <<>>
       /\ seen' = <<>>
       /\ UNCHANGED <<_toolbox, _registry, returned>>

\* setToolbox without the fallback to "default".
setToolbox_withoutFallback(name) ==
  /\ lastCall' = [op |-> "setToolbox", name |-> name, was |-> _toolbox]
  /\ UNCHANGED <<build, _allowedBlocks, _generators, _selectedKernel,
                 _generator, connected>>
  /\ IF _toolbox # name THEN
       /\ _toolbox' = name
       /\ LET r == _filterToolbox(build, _registry, name, _allowedBlocks,
                                  returned) IN
          _registry' = r.registry /\ returned' = r.returned
       /\ emitted' = <<"toolbox">>
       /\ seen' = <<Listener'>>
     ELSE
       /\ emitted' = <<>>
       /\ seen' = <<>>
       /\ UNCHANGED <<_toolbox, _registry, returned>>

\* setToolbox(name)
setToolbox(name) ==
  /\ lastCall' = [op |-> "setToolbox", name |-> name, was |-> _toolbox]
  /\ UNCHANGED <<build, _allowedBlocks, _generators, _selectedKernel,
                 _generator, connected>>
  /\ IF _toolbox # name THEN
       LET resolved == IF name \in DOMAIN _registry.toolboxes
                       THEN name ELSE "default" IN
       /\ _toolbox' = resolved
       /\ LET r == _filterToolbox(build, _registry, resolved, _allowedBlocks,
                                  returned) IN
          _registry' = r.registry /\ returned' = r.returned
       /\ emitted' = <<"toolbox">>
       /\ seen' = <<Listener'>>
     ELSE
       /\ emitted' = <<>>
       /\ seen' = <<>>
       /\ UNCHANGED <<_toolbox, _registry, returned>>

\* setAllowedBlocks(allowedBlocks)
setAllowedBlocks(allowedBlocks) ==
  /\ lastCall' = [op |-> "setAllowedBlocks", name |-> Undefined,
                  was |-> _toolbox]
  /\ _allowedBlocks' = allowedBlocks
  /\ LET r == _filterToolbox(build, _registry, _toolbox, allowedBlocks,
                             returned) IN
     _registry' = r.registry /\ returned' = r.returned
  /\ UNCHANGED <<build, _toolbox, _generators, _selectedKernel, _generator,
                 connected>>
  /\ emitted' = <<"toolbox">>
  /\ seen' = <<Listener'>>

----------------------------------------------------------------------------
(* The manager and the session's kernel *)

\* What _onKernelChanged leaves alone.
kernelFrame ==
  UNCHANGED <<build, _registry, _generators, _toolbox, _allowedBlocks,
              connected, returned>>

\* _onKernelChanged keeping the generator it has when the new kernel's
\* language has none.
_onKernelChanged_keepsGenerator(newValue) ==
  /\ kernelFrame
  /\ IF newValue # Null /\ newValue \in DOMAIN kernelspecs THEN
       LET language == kernelspecs[newValue].language IN
       /\ _selectedKernel' = kernelspecs[newValue]
       /\ _generator' = IF generators_has(language)
                         THEN generators_get(language) ELSE _generator
       /\ emitted' = <<"kernel">>
       /\ seen' = <<Listener'>>
     ELSE
       /\ emitted' = <<>>
       /\ seen' = <<>>
       /\ UNCHANGED <<_selectedKernel, _generator>>

\* _onKernelChanged testing only args.newValue, not the catalog.
_onKernelChanged_withoutCatalogCheck(newValue) ==
  /\ kernelFrame
  /\ IF newValue # Null THEN
       /\ _selectedKernel' = IF newValue \in DOMAIN kernelspecs
                              THEN kernelspecs[newValue]
                              ELSE ISpecModel(newValue, newValue, Undefined)
       /\ _generator' = IF newValue \in DOMAIN kernelspecs
                         THEN generators_get(kernelspecs[newValue].language)
                         ELSE Undefined
       /\ emitted' = <<"kernel">>
       /\ seen' = <<Listener'>>
     ELSE
       /\ emitted' = <<>>
       /\ seen' = <<>>
       /\ UNCHANGED <<_selectedKernel, _generator>>

\* _onKernelChanged emitting 'kernel' before it assigns the generator.
_onKernelChanged_emitsFirst(newValue) ==
  /\ kernelFrame
  /\ IF newValue # Null /\ newValue \in DOMAIN kernelspecs THEN
       LET language == kernelspecs[newValue].language IN
       /\ _selectedKernel' = kernelspecs[newValue]
       /\ _generator' = generators_get(language)
       /\ emitted' = <<"kernel">>
       /\ seen' = <<[Listener' EXCEPT !.generator = _generator]>>
     ELSE
       /\ emitted' = <<>>
       /\ seen' = <<>>
       /\ UNCHANGED <<_selectedKernel, _generator>>

\* _onKernelChanged unsetting the kernel when args.newValue is null.
_onKernelChanged_clearsOnNull(newValue) ==
  /\ kernelFrame
  /\ IF newValue # Null /\ newValue \in DOMAIN kernelspecs THEN
       LET language == kernelspecs[newValue].language IN
       /\ _selectedKernel' = kernelspecs[newValue]
       /\ _generator' = generators_get(language)
       /\ emitted' = <<"kernel">>
       /\ seen' = <<Listener'>>
     ELSE IF newValue = Null THEN
       /\ _selectedKernel' = UndefinedKernel
       /\ UNCHANGED _generator
       /\ emitted' = <<"kernel">>
       /\ seen' = <<Listener'>>
     ELSE
       /\ emitted' = <<>>
       /\ seen' = <<>>
       /\ UNCHANGED <<_selectedKernel, _generator>>

\* _onKernelChanged(sender, args), with args.newValue a kernel's name or null
_onKernelChanged(newValue) ==
  /\ kernelFrame
  /\ IF newValue # Null /\ newValue \in DOMAIN kernelspecs THEN
       LET language == kernelspecs[newValue].language IN
       /\ _selectedKernel' = kernelspecs[newValue]
       /\ _generator' = generators_get(language)
       /\ emitted' = <<"kernel">>
       /\ seen' = <<Listener'>>
     ELSE
       /\ emitted' = <<>>
       /\ seen' = <<>>
       /\ UNCHANGED <<_selectedKernel, _generator>>

\* What neither dispose nor selectKernel touches.
managerFrame ==
  UNCHANGED <<build, _registry, _generators, _toolbox, _allowedBlocks,
              _selectedKernel, _generator, returned>>

\* dispose leaving _onKernelChanged connected.
dispose_withoutDisconnect ==
  /\ lastCall' = [op |-> "dispose", name |-> Undefined, was |-> kernel]
  /\ managerFrame
  /\ UNCHANGED connected
  /\ emitted' = <<>>
  /\ seen' = <<>>

\* dispose()
dispose ==
  /\ lastCall' = [op |-> "dispose", name |-> Undefined, was |-> kernel]
  /\ managerFrame
  /\ connected' = FALSE
  /\ emitted' = <<>>
  /\ seen' = <<>>

\* sessionContext.changeKernel({ name }): the request is pending until the
\* session confirms it.
changeKernel(name) == requests' = Append(requests, name)

\* selectKernel(name)
selectKernel(name) ==
  /\ lastCall' = [op |-> "selectKernel", name |-> name, was |-> kernel]
  /\ changeKernel(name)
  /\ managerFrame
  /\ UNCHANGED connected
  /\ emitted' = <<>>
  /\ seen' = <<>>

\* sessionContext.kernelChanged.emit(args): every connected slot is called.
kernelChanged(newValue) ==
  /\ lastCall' = [op |-> "kernelChanged", name |-> newValue, was |-> kernel]
  /\ IF connected THEN _onKernelChanged(newValue)
     ELSE /\ managerFrame
          /\ UNCHANGED connected
          /\ emitted' = <<>>
          /\ seen' = <<>>

RemoveAt(seq, i) == SubSeq(seq, 1, i - 1) \o SubSeq(seq, i + 1, Len(seq))

\* The session confirms the pending request i, whatever was asked after it.
sessionConfirms(i) ==
  /\ requests' = RemoveAt(requests, i)
  /\ kernelChanged(requests[i])

\* The session's kernel changes with no request of the manager: it was
\* chosen in the host's own dialog, restarted, or shut down (null).
sessionChangesKernel(newValue) ==
  /\ UNCHANGED requests
  /\ kernelChanged(newValue)

\* BlocklyRegistry.registerGenerator(language, generator)
registerGenerator(language) ==
  /\ lastCall' = [op |-> "registerGenerator", name |-> language,
                  was |-> kernel]
  /\ _generators' = _generators \cup {language}
  /\ UNCHANGED <<build, _registry, _toolbox, _allowedBlocks, _selectedKernel,
                 _generator, connected, returned>>
  /\ emitted' = <<>>
  /\ seen' = <<>>

Next ==
  \/ \E name \in ToolboxNames \cup UnknownNames :
       setToolbox(name) /\ UNCHANGED sessionVars
  \/ \E allowedBlocks \in AllowLists :
       setAllowedBlocks(allowedBlocks) /\ UNCHANGED sessionVars

Spec == Init /\ [][Next]_vars

----------------------------------------------------------------------------
(* The manager, the session and the generators *)

\* The "default" toolbox of a manager that is followed through a session.
SessionToolbox(kc) ==
  <<BlockInfo(kc, "a"), StaticCategoryInfo(kc, <<BlockInfo(kc, "B")>>)>>

\* The allow-lists set during a session: undefined, and the list ["a"].
SessionAllowLists ==
  {[undefined |-> TRUE, blocks |-> {}], [undefined |-> FALSE, blocks |-> {"a"}]}

\* new BlocklyManager(...) over the session's registry, 'python' registered.
NewManager ==
  /\ build \in Builds
  /\ \E kc \in KindCases :
       LET r == _filterToolbox(build, RegistryOf(kc, SessionToolbox(kc)),
                               "default",
                               [undefined |-> TRUE, blocks |-> {}], 0) IN
       _registry = r.registry /\ returned = r.returned
  /\ _generators = {"python"}
  /\ constructor

KernelInit ==
  /\ NewManager
  /\ NewSession
  /\ model = EmptyContent
  /\ managerB = NoManager

panelVars == <<pc, model, workspace, reports, calls, managerB>>

KernelNext ==
  \/ \E name \in ToolboxNames \cup UnknownNames :
       setToolbox(name) /\ UNCHANGED sessionVars
  \/ \E allowedBlocks \in SessionAllowLists :
       setAllowedBlocks(allowedBlocks) /\ UNCHANGED sessionVars
  \/ \E name \in KernelNames :
       /\ Len(requests) < MaxRequests
       /\ selectKernel(name) /\ UNCHANGED panelVars
  \/ \E i \in 1..Len(requests) :
       sessionConfirms(i) /\ UNCHANGED panelVars
  \/ \E newValue \in KernelNames \cup {Null} :
       sessionChangesKernel(newValue) /\ UNCHANGED panelVars
  \/ dispose /\ UNCHANGED sessionVars
  \/ \E language \in Languages :
       registerGenerator(language) /\ UNCHANGED sessionVars

KernelSpec == KernelInit /\ [][KernelNext]_vars

----------------------------------------------------------------------------
(* Reading the annotations of the selected toolbox *)

Max(S) == CHOOSE m \in S : \A x \in S : x <= m
Range(seq) == {seq[i] : i \in 1..Len(seq)}

\* Every contents list of a tree: the list itself and, recursively, the
\* contents of each static category in it.
RECURSIVE Lists(_)
Lists(contents) ==
  {contents} \cup
  UNION {IF IsStaticCategory(contents[i]) THEN Lists(contents[i].contents)
         ELSE {} : i \in 1..Len(contents)}

\* Every node of a tree.
Nodes(contents) == UNION {Range(l) : l \in Lists(contents)}

Blocks(contents) ==
  {n \in Nodes(contents) : IsBlock(n) /\ ~IsStaticCategory(n)}
StaticCategories(contents) ==
  {n \in Nodes(contents) : IsStaticCategory(n)}
DynamicCategories(contents) ==
  {n \in Nodes(contents) :
     IsDynamicCategory(n) /\ ~IsStaticCategory(n) /\ ~IsBlock(n)}
Separators(contents) ==
  {n \in Nodes(contents) :
     IsSeparator(n) /\ ~IsStaticCategory(n) /\ ~IsBlock(n)}

Hidden(item)  == item.hidden \in {StrTrue, BoolTrue}
Enabled(item) == item.disabled = BoolFalse
DynamicVisible(item) == ~Hidden(item) /\ item.disabled # StrTrue

\* An item that counts as visible content of its list.
VisibleContent(item) ==
  IF IsStaticCategory(item) THEN ~Hidden(item)
  ELSE IF IsBlock(item) THEN Enabled(item)
  ELSE IF IsDynamicCategory(item) THEN DynamicVisible(item)
  ELSE FALSE

\* Membership in the allow-list as the specification defines it: the list
\* undefined, or the identifier, compared case-insensitively, in the list.
Allowed(id) ==
  _allowedBlocks.undefined \/ toLowerCase(id) \in _allowedBlocks.blocks

NotAllowedReasons == <<"This block is not allowed">>

----------------------------------------------------------------------------
(* C1 *)

HasVisibleDescendant(contents) ==
  \E n \in Nodes(contents) : VisibleContent(n)

CategoryOfOneAllowedOneNot(c) ==
  /\ Len(c.contents) = 2
  /\ IsBlock(c.contents[1]) /\ IsBlock(c.contents[2])
  /\ ~_allowedBlocks.undefined
  /\ Allowed(c.contents[1].type) /\ ~Allowed(c.contents[2].type)

\* C1: every static category of the selected toolbox is hidden iff nothing
\* anywhere in its contents is visible (no enabled block, no visible dynamic
\* category, no visible sub-category); a category of one allowed and one
\* disallowed block is visible and holds exactly one enabled block.
C1_CategoryHiddenIffNoVisibleDescendant ==
  \A c \in StaticCategories(toolbox.contents) :
    /\ Hidden(c) <=> ~HasVisibleDescendant(c.contents)
    /\ CategoryOfOneAllowedOneNot(c) =>
         /\ ~Hidden(c)
         /\ Cardinality({i \in 1..2 : Enabled(c.contents[i])}) = 1

----------------------------------------------------------------------------
(* C2 *)

\* C2: every block of the selected toolbox has disabled = false exactly when
\* the allow-list is undefined or holds the block's type, compared
\* case-insensitively; disabledReasons is ["This block is not allowed"] when
\* it is disabled and [] when it is enabled.
C2_BlockDisabledIffNotAllowed ==
  \A b \in Blocks(toolbox.contents) :
    /\ b.disabled \in {BoolTrue, BoolFalse}
    /\ b.disabled = BoolFalse <=> Allowed(b.type)
    /\ b.disabled = BoolTrue => b.disabledReasons = NotAllowedReasons
    /\ b.disabled = BoolFalse => b.disabledReasons = <<>>

----------------------------------------------------------------------------
(* C3 *)

\* Index of the last visible separator before position i of list l; 0 if none.
PreviousVisibleSeparator(l, i) ==
  Max({0} \cup {j \in 1..(i - 1) : IsSeparator(l[j]) /\ ~Hidden(l[j])})

NewVisibleContent(l, i) ==
  \E k \in (PreviousVisibleSeparator(l, i) + 1)..(i - 1) : VisibleContent(l[k])

IsSeparatorExample(l) ==
  /\ Len(l) = 5
  /\ IsBlock(l[1]) /\ IsSeparator(l[2]) /\ IsBlock(l[3])
  /\ IsSeparator(l[4]) /\ IsBlock(l[5])
  /\ ~_allowedBlocks.undefined
  /\ ~Allowed(l[1].type) /\ ~Allowed(l[3].type) /\ Allowed(l[5].type)

\* C3: in every contents list of the selected toolbox a separator is hidden
\* exactly when no visible content (enabled block, visible category) appeared
\* since the previous visible separator, the start of the list counting as
\* one; in [A(not allowed), Sep, B(not allowed), Sep, C(allowed)] both
\* separators are hidden.
C3_SeparatorHiddenIffNoNewContent ==
  \A l \in Lists(toolbox.contents) :
    /\ \A i \in 1..Len(l) :
         IsSeparator(l[i]) => (Hidden(l[i]) <=> ~NewVisibleContent(l, i))
    /\ IsSeparatorExample(l) => Hidden(l[2]) /\ Hidden(l[4])

----------------------------------------------------------------------------
(* C4 *)

ShownItem(item) ==
  IF IsSeparator(item) THEN ~Hidden(item) ELSE VisibleContent(item)
VisibleItems(l) == SelectSeq(l, ShownItem)

\* C4: reading only the visible items of any contents list of the selected
\* toolbox, no two separators are consecutive, the first is not a separator
\* and the last is not a separator.
C4_NoRedundantVisibleSeparator ==
  \A l \in Lists(toolbox.contents) :
    LET v == VisibleItems(l) IN
    /\ \A i \in 1..(Len(v) - 1) : ~(IsSeparator(v[i]) /\ IsSeparator(v[i + 1]))
    /\ Len(v) > 0 => ~IsSeparator(v[1]) /\ ~IsSeparator(v[Len(v)])

----------------------------------------------------------------------------
(* C5 *)

\* Content of the unfiltered tree: a block, a dynamic category, or a static
\* category with a block or dynamic category somewhere inside.
StructuralContent(item) ==
  IF IsStaticCategory(item)
    THEN Blocks(item.contents) \cup DynamicCategories(item.contents) # {}
    ELSE IsBlock(item) \/ IsDynamicCategory(item)

\* A separator with no content between it and the separator before it (or
\* the start of the list), whatever the allow-list.
StructurallyRedundant(l, i) ==
  LET j == Max({0} \cup {k \in 1..(i - 1) : IsSeparator(l[k])}) IN
  \A k \in (j + 1)..(i - 1) : ~StructuralContent(l[k])

\* C5: while the allow-list is undefined, every block of the selected toolbox
\* is enabled, every category with content is visible, and a separator is
\* hidden only if it is structurally redundant in the unfiltered tree.
C5_UndefinedAllowsAll ==
  _allowedBlocks.undefined =>
    /\ \A b \in Blocks(toolbox.contents) : Enabled(b)
    /\ \A d \in DynamicCategories(toolbox.contents) : DynamicVisible(d)
    /\ \A c \in StaticCategories(toolbox.contents) :
         StructuralContent(c) => ~Hidden(c)
    /\ \A l \in Lists(toolbox.contents) : \A i \in 1..Len(l) :
         (IsSeparator(l[i]) /\ Hidden(l[i])) => StructurallyRedundant(l, i)

----------------------------------------------------------------------------
(* C6 *)

EmptyList == [undefined |-> FALSE, blocks |-> {}]

\* C6: after setAllowedBlocks([]), in the selected toolbox every block is
\* disabled, every dynamic category is hidden or disabled, every static
\* category is hidden and every separator is hidden.
C6_EmptyListHidesAll ==
  (lastCall.op = "setAllowedBlocks" /\ _allowedBlocks = EmptyList) =>
    /\ \A b \in Blocks(toolbox.contents) : b.disabled = BoolTrue
    /\ \A d \in DynamicCategories(toolbox.contents) : ~DynamicVisible(d)
    /\ \A c \in StaticCategories(toolbox.contents) : Hidden(c)
    /\ \A s \in Separators(toolbox.contents) : Hidden(s)

----------------------------------------------------------------------------
(* C7 *)

\* C7: in every state the filter has left (after the constructor and after
\* every setter, whatever the annotations were before), running the filter
\* once more on the selected toolbox with the same allow-list leaves every
\* annotation as it is and returns the count the run before it returned.
C7_FilterIdempotent ==
  LET again == filterContents(build, toolbox.contents, _allowedBlocks) IN
  again.contents = toolbox.contents /\ again.visible = returned

\* A restrictive list has been applied and left a disabled block, a hidden
\* category and a hidden separator in the selected toolbox.
C7_Witness ==
  /\ lastCall.op = "setAllowedBlocks"
  /\ ~_allowedBlocks.undefined
  /\ \E b \in Blocks(toolbox.contents) : b.disabled = BoolTrue
  /\ \E b \in Blocks(toolbox.contents) : b.disabled = BoolFalse
  /\ \E c \in StaticCategories(toolbox.contents) : Hidden(c)
  /\ \E x \in Separators(toolbox.contents) : Hidden(x)

----------------------------------------------------------------------------
(* C8 *)

SetToolboxUnknown ==
  lastCall.op = "setToolbox" /\ lastCall.name \notin DOMAIN _registry.toolboxes

\* C8 as stated: setToolbox with an unregistered name leaves the toolbox name
\* "default", emits nothing if the toolbox was "default" already and emits
\* "toolbox" if it was not.
C8_Original ==
  SetToolboxUnknown =>
    /\ _toolbox = "default"
    /\ lastCall.was = "default" => emitted = <<>>
    /\ lastCall.was # "default" => emitted = <<"toolbox">>

\* C8 as amended: setToolbox with an unregistered name leaves the toolbox
\* name "default" and emits "toolbox" exactly once, whether or not the
\* toolbox was "default" already.
C8_UnknownToolboxFallsBackAndEmits ==
  SetToolboxUnknown => _toolbox = "default" /\ emitted = <<"toolbox">>

C8_Witness ==
  /\ SetToolboxUnknown
  /\ lastCall.was = "default"
  /\ _toolbox = "default"
  /\ emitted = <<"toolbox">>

----------------------------------------------------------------------------
(* C9 *)

\* C9: a setAllowedBlocks call emits exactly one "toolbox"; a setToolbox call
\* with the current name emits nothing and changes no state, and with any
\* other name emits exactly one "toolbox"; no setter emits "kernel".
C9_OneNotificationPerCall ==
  [][ /\ lastCall'.op = "setAllowedBlocks" => emitted' = <<"toolbox">>
      /\ lastCall'.op = "setToolbox" =>
           IF lastCall'.name = _toolbox
             THEN /\ emitted' = <<>>
                  /\ UNCHANGED <<_toolbox, _allowedBlocks, _registry, returned>>
             ELSE emitted' = <<"toolbox">>
      /\ "kernel" \notin Range(emitted')
    ]_vars

C9_Witness ==
  /\ lastCall.op = "setToolbox"
  /\ lastCall.name = lastCall.was
  /\ lastCall.name = "other"
  /\ emitted = <<>>

----------------------------------------------------------------------------
(* C10 *)

\* C10: the current toolbox name is always a name registered in the registry
\* or the string "default".
C10_ToolboxNameRegisteredOrDefault ==
  _toolbox \in DOMAIN _registry.toolboxes \cup {"default"}

C10_Witness ==
  /\ SetToolboxUnknown
  /\ lastCall.was = "other"
  /\ _toolbox = "default"

----------------------------------------------------------------------------
(* The panel and the document *)

\* listToolboxes() and listKernels(), as the sets of their `value`s.
listToolboxes == DOMAIN _registry.toolboxes
listKernels ==
  {kernelspecs[key].name :
     key \in {k \in DOMAIN kernelspecs :
                generators_has(kernelspecs[k].language)}}

\* JavaScript truthiness of fileContent['blocks'], metadata['toolbox'], ...
Truthy(keys, key, value) ==
  key \in keys /\ value \notin {Undefined, Null, "falsy", ""}

Call(op, name) == [op |-> op, name |-> name]

\* _load applying metadata of a file that has no format.
LoadPlan_legacyAppliesMetadata(fileContent) ==
  LET fileFormat == IF "format" \in fileContent.keys
                    THEN fileContent.format ELSE Undefined
      metadata == fileContent.metadata
  IN
  IF fileFormat = Undefined
     /\ Truthy(fileContent.keys, "blocks", fileContent.blocks) THEN
    [branch |-> "legacy", sets |-> TRUE, workspace |-> fileContent,
     reports |-> <<>>,
     calls |-> IF "metadata" \in fileContent.keys
               THEN <<Call("setToolbox", metadata.toolbox)>> ELSE <<>>]
  ELSE
    [branch |-> "unsupported", sets |-> FALSE, workspace |-> UndefinedWorkspace,
     reports |-> <<"Unsupported file format">>, calls |-> <<>>]

\* _load taking every file that is not legacy as a format-2 file.
LoadPlan_withoutFormatCheck(fileContent) ==
  LET fileFormat == IF "format" \in fileContent.keys
                    THEN fileContent.format ELSE Undefined
  IN
  IF fileFormat = Undefined
     /\ Truthy(fileContent.keys, "blocks", fileContent.blocks) THEN
    [branch |-> "legacy", sets |-> TRUE, workspace |-> fileContent,
     reports |-> <<>>, calls |-> <<>>]
  ELSE
    [branch |-> "2", sets |-> TRUE, workspace |-> fileContent.workspace,
     reports |-> <<>>, calls |-> <<>>]

\* What _load does with fileContent: the branch it takes, the workspace
\* state it sets, what it reports and the manager's methods it calls.
LoadPlan(fileContent) ==
  LET fileFormat == IF "format" \in fileContent.keys
                    THEN fileContent.format ELSE Undefined
      metadata == fileContent.metadata
      hasMetadata == "metadata" \in fileContent.keys
      hasToolbox == hasMetadata
                    /\ Truthy(metadata.keys, "toolbox", metadata.toolbox)
      hasKernel == hasMetadata
                   /\ Truthy(metadata.keys, "kernel", metadata.kernel)
                   /\ metadata.kernel # "No kernel"
  IN
  IF fileFormat = Undefined
     /\ Truthy(fileContent.keys, "blocks", fileContent.blocks) THEN
    [branch |-> "legacy", sets |-> TRUE, workspace |-> fileContent,
     reports |-> <<>>, calls |-> <<>>]
  ELSE IF fileFormat = "2" THEN
    [branch |-> "2", sets |-> TRUE,
     workspace |-> IF "workspace" \in fileContent.keys
                   THEN fileContent.workspace ELSE UndefinedWorkspace,
     reports |->
       (IF hasToolbox /\ metadata.toolbox \notin listToolboxes
          THEN <<"Unknown toolbox">> ELSE <<>>)
       \o (IF hasKernel /\ metadata.kernel \notin listKernels
             THEN <<"Unknown kernel in blockly file">> ELSE <<>>),
     calls |->
       (IF hasToolbox /\ metadata.toolbox \in listToolboxes
          THEN <<Call("setToolbox", metadata.toolbox)>> ELSE <<>>)
       \o (IF hasKernel /\ metadata.kernel \in listKernels
             THEN <<Call("selectKernel", metadata.kernel)>> ELSE <<>>)]
  ELSE
    [branch |-> "unsupported", sets |-> FALSE, workspace |-> UndefinedWorkspace,
     reports |-> <<"Unsupported file format">>, calls |-> <<>>]

Selects(plan) == {c \in Range(plan.calls) : c.op = "selectKernel"}
Switches(plan) == {c \in Range(plan.calls) : c.op = "setToolbox"}

\* _load()
_load ==
  /\ pc = "ready"
  /\ pc' = "loaded"
  /\ LET plan == LoadPlan(model) IN
     /\ workspace' = IF plan.sets THEN plan.workspace ELSE workspace
     /\ reports' = plan.reports
     /\ calls' = plan.calls
     /\ IF Switches(plan) # {}
          THEN \E c \in Switches(plan) : setToolbox(c.name)
          ELSE /\ lastCall' = [op |-> "_load", name |-> Undefined,
                               was |-> _toolbox]
               /\ UNCHANGED <<build, _registry, _generators, _toolbox,
                              _allowedBlocks, _selectedKernel, _generator,
                              connected, returned>>
               /\ emitted' = <<>>
               /\ seen' = <<>>
     /\ IF Selects(plan) # {}
          THEN \E c \in Selects(plan) : changeKernel(c.name)
          ELSE UNCHANGED requests
  /\ UNCHANGED <<model, managerB>>

\* The fileContent _onSave writes.
SavedContent ==
  FileContent({"format", "workspace", "metadata"}, "2", Undefined, workspace,
              Metadata({"toolbox", "kernel"}, _toolbox, kernel))

\* _onSave(sender, state)
_onSave(state) ==
  /\ model' = IF state = "started" THEN SavedContent ELSE model
  /\ UNCHANGED <<build, _registry, _generators, _toolbox, _allowedBlocks,
                 _selectedKernel, _generator, connected, requests, returned,
                 emitted, seen, lastCall, pc, workspace, reports, calls,
                 managerB>>

\* The documents opened: legacy files, files of format 2 with every kind of
\* metadata, and files of another format.
FullMetadata == Metadata({"toolbox", "kernel"}, "other", "python3")
MetadataCases ==
  {Metadata((IF tb = Undefined THEN {} ELSE {"toolbox"})
              \cup (IF k = Undefined THEN {} ELSE {"kernel"}), tb, k) :
     tb \in {Undefined} \cup ToolboxNames \cup UnknownNames,
     k \in {Undefined, "No kernel"} \cup KernelNames}
LegacyContents ==
  {FileContent({"blocks"} \cup mk, Undefined, b, UndefinedWorkspace,
               IF mk = {} THEN NoMetadata ELSE FullMetadata) :
     b \in {"truthy", "falsy"}, mk \in {{}, {"metadata"}}}
Format2Contents ==
  {FileContent({"format", "workspace"}, "2", Undefined,
               WorkspaceState("truthy"), NoMetadata)}
  \cup {FileContent({"format", "workspace", "metadata"}, "2", Undefined,
                     WorkspaceState("truthy"), m) : m \in MetadataCases}
OtherContents ==
  {FileContent(mk, Undefined, Undefined, UndefinedWorkspace,
               IF mk = {} THEN NoMetadata ELSE FullMetadata) :
     mk \in {{}, {"metadata"}}}
  \cup {FileContent({"format", "workspace", "metadata"}, f, Undefined,
                     WorkspaceState("truthy"), FullMetadata) :
          f \in {"1", "'2'", Null}}
FileContents == LegacyContents \cup Format2Contents \cup OtherContents

DocumentInit ==
  /\ NewManager
  /\ NewSession
  /\ model \in FileContents
  /\ managerB = NoManager

DocumentNext ==
  \/ _load
  \/ \E state \in {"started", "completed"} : _onSave(state)
  \/ \E name \in ToolboxNames :
       setToolbox(name) /\ UNCHANGED sessionVars
  \/ \E i \in 1..Len(requests) :
       sessionConfirms(i) /\ UNCHANGED panelVars
  \/ \E newValue \in KernelNames \cup {Null} :
       sessionChangesKernel(newValue) /\ UNCHANGED panelVars

DocumentSpec == DocumentInit /\ [][DocumentNext]_vars

----------------------------------------------------------------------------
(* Two managers over one registry *)

\* The "default" toolbox two managers share: a block, a category holding
\* only a label, and a category holding a block.
SharedToolbox(kc) ==
  <<BlockInfo(kc, "a"),
    StaticCategoryInfo(kc, <<LabelInfo(kc)>>),
    StaticCategoryInfo(kc, <<BlockInfo(kc, "B")>>)>>

\* The allow-lists either manager sets: undefined, ["a"] and ["b"].
SharedAllowLists ==
  {[undefined |-> TRUE, blocks |-> {}],
   [undefined |-> FALSE, blocks |-> {"a"}],
   [undefined |-> FALSE, blocks |-> {"b"}]}

\* new BlocklyManager(registry, ...) twice over the same registry: each
\* constructor selects 'default' and filters the registry's tree.
SharedInit ==
  /\ build \in Builds
  /\ \E kc \in KindCases :
       LET undefinedList == [undefined |-> TRUE, blocks |-> {}]
           a == _filterToolbox(build, RegistryOf(kc, SharedToolbox(kc)),
                               "default", undefinedList, 0)
           b == _filterToolbox(build, a.registry, "default", undefinedList,
                               a.returned)
       IN _registry = b.registry /\ returned = b.returned
  /\ _generators = {"python"}
  /\ constructor
  /\ NewSession
  /\ model = EmptyContent
  /\ managerB = Manager("default", [undefined |-> TRUE, blocks |-> {}], <<>>)

\* What a call on the second manager leaves alone in the first: its fields,
\* and its _changed, which emits nothing.
otherFrame ==
  /\ UNCHANGED <<build, _generators, _toolbox, _allowedBlocks,
                 _selectedKernel, _generator, connected>>
  /\ emitted' = <<>>
  /\ seen' = <<>>

\* setToolbox(name) on the second manager
managerB_setToolbox(name) ==
  /\ lastCall' = [op |-> "managerB.setToolbox", name |-> name,
                  was |-> managerB._toolbox]
  /\ otherFrame
  /\ IF managerB._toolbox # name THEN
       LET resolved == IF name \in DOMAIN _registry.toolboxes
                       THEN name ELSE "default"
           r == _filterToolbox(build, _registry, resolved,
                               managerB._allowedBlocks, returned) IN
       /\ managerB' = [managerB EXCEPT !._toolbox = resolved,
                                       !.emitted = <<"toolbox">>]
       /\ _registry' = r.registry
       /\ returned' = r.returned
     ELSE
       /\ managerB' = [managerB EXCEPT !.emitted = <<>>]
       /\ UNCHANGED <<_registry, returned>>

\* setAllowedBlocks(allowedBlocks) on the second manager
managerB_setAllowedBlocks(allowedBlocks) ==
  /\ lastCall' = [op |-> "managerB.setAllowedBlocks", name |-> Undefined,
                  was |-> managerB._toolbox]
  /\ otherFrame
  /\ LET r == _filterToolbox(build, _registry, managerB._toolbox,
                             allowedBlocks, returned) IN
     /\ _registry' = r.registry
     /\ returned' = r.returned
  /\ managerB' = [managerB EXCEPT !._allowedBlocks = allowedBlocks,
                                  !.emitted = <<"toolbox">>]

SharedNext ==
  \/ \E name \in ToolboxNames \cup UnknownNames :
       setToolbox(name) /\ UNCHANGED sessionVars
  \/ \E allowedBlocks \in SharedAllowLists :
       setAllowedBlocks(allowedBlocks) /\ UNCHANGED sessionVars
  \/ \E name \in ToolboxNames \cup UnknownNames :
       managerB_setToolbox(name) /\ UNCHANGED <<requests, pc, model, workspace, reports, calls>>
  \/ \E allowedBlocks \in SharedAllowLists :
       managerB_setAllowedBlocks(allowedBlocks) /\ UNCHANGED <<requests, pc, model, workspace, reports, calls>>

SharedSpec == SharedInit /\ [][SharedNext]_vars

----------------------------------------------------------------------------
(* C11 *)

\* The step is a kernelChanged notification that reaches the manager.
Notified == connected /\ lastCall'.op = "kernelChanged"

\* C11: a kernelChanged notification that reaches the manager, for a kernel
\* of the catalog, sets the selected kernel to that kernel's spec, emits
\* exactly one "kernel", and sets the generator to the registry's entry for
\* the kernel's language, or to undefined when the registry has none.
C11_KnownKernelUpdatesBinding ==
  [][ (Notified /\ lastCall'.name \in DOMAIN kernelspecs) =>
        LET k == kernelspecs[lastCall'.name] IN
        /\ _selectedKernel' = k
        /\ kernel' = lastCall'.name
        /\ emitted' = <<"kernel">>
        /\ _generator' = IF k.language \in _generators
                          THEN k.language ELSE Undefined
    ]_vars

\* The kernel changed from python3, whose generator was held, to ir, whose
\* language has no generator.
C11_Witness ==
  /\ lastCall.op = "kernelChanged"
  /\ lastCall.name = "ir"
  /\ lastCall.was = "python3"
  /\ "r" \notin _generators
  /\ _selectedKernel = kernelspecs["ir"]
  /\ _generator = Undefined
  /\ emitted = <<"kernel">>

----------------------------------------------------------------------------
(* C12 *)

\* C12: a kernelChanged notification whose new kernel is not in the catalog
\* changes neither the selected kernel, the generator, the toolbox name, the
\* allow-list nor any toolbox annotation, and emits nothing.
C12_UnknownKernelIgnored ==
  [][ (lastCall'.op = "kernelChanged"
       /\ lastCall'.name \notin DOMAIN kernelspecs) =>
        /\ UNCHANGED <<_selectedKernel, _generator, _toolbox, _allowedBlocks,
                       _registry>>
        /\ emitted' = <<>>
    ]_vars

\* A connected manager holding python3 was notified of the kernel "ghost".
C12_Witness ==
  /\ connected
  /\ lastCall.op = "kernelChanged"
  /\ lastCall.name = "ghost"
  /\ lastCall.was = "python3"
  /\ kernel = "python3"
  /\ _generator = "python"
  /\ emitted = <<>>

----------------------------------------------------------------------------
(* C13 *)

\* C13: in every state the generator is the registry's generator for the
\* selected kernel's language, or the registry's generator for 'python' when
\* no kernel is selected.
C13_GeneratorDerivedFromKernel ==
  _generator = IF _selectedKernel = UndefinedKernel
               THEN generators_get("python")
               ELSE generators_get(_selectedKernel.language)

----------------------------------------------------------------------------
(* C14 *)

\* Request i was followed by a request for another kernel.
Superseded(i) ==
  \E j \in (i + 1)..Len(requests) : requests[j] # requests[i]

\* The step confirms the pending request i to a connected manager.
Confirms(i) ==
  /\ Notified
  /\ requests' = RemoveAt(requests, i)
  /\ lastCall'.name = requests[i]

\* C14: the confirmation of a superseded request changes neither the
\* selected kernel nor the generator and emits nothing, and the confirmation
\* of the request made last binds the manager to that kernel; so, in
\* whatever order the confirmations arrive, the manager ends with the kernel
\* asked for last.
C14_OnlyFinalConfirmationBinds ==
  [][ \A i \in 1..Len(requests) :
        Confirms(i) =>
          IF Superseded(i)
            THEN /\ UNCHANGED <<_selectedKernel, _generator>>
                 /\ emitted' = <<>>
            ELSE requests[i] \in DOMAIN kernelspecs =>
                   /\ _selectedKernel' = kernelspecs[requests[i]]
                   /\ emitted' = <<"kernel">>
    ]_vars

----------------------------------------------------------------------------
(* C15 *)

\* The toolbox name and the kernel name of a manager just constructed, after
\* _load of fileContent and after the session has confirmed the kernel
\* _load asked for.
LoadedToolbox(fileContent) ==
  LET sw == Switches(LoadPlan(fileContent)) IN
  IF sw = {} THEN "default"
  ELSE LET name == (CHOOSE c \in sw : TRUE).name IN
       IF name \in DOMAIN _registry.toolboxes THEN name ELSE "default"
LoadedKernel(fileContent) ==
  LET sel == Selects(LoadPlan(fileContent)) IN
  IF sel = {} THEN "No kernel"
  ELSE LET name == (CHOOSE c \in sel : TRUE).name IN
       IF name \in DOMAIN kernelspecs THEN kernelspecs[name].name
       ELSE "No kernel"

\* C15: whenever the toolbox name is registered and the kernel is in the
\* catalog (or none is selected), the document _onSave writes has format 2
\* with metadata.toolbox the toolbox name and metadata.kernel the kernel name
\* or "No kernel", and loading it into a new manager gives, once the session
\* has confirmed the requested kernel, the same toolbox name and kernel name.
C15_SaveThenLoadRestoresNames ==
  (/\ _toolbox \in DOMAIN _registry.toolboxes
   /\ (kernel = "No kernel" \/ kernel \in DOMAIN kernelspecs)) =>
    /\ SavedContent.format = "2"
    /\ SavedContent.metadata.toolbox = _toolbox
    /\ SavedContent.metadata.kernel = kernel
    /\ LoadedToolbox(SavedContent) = _toolbox
    /\ LoadedKernel(SavedContent) = kernel

----------------------------------------------------------------------------
(* C16 *)

\* The step is the panel's _load of the document `model`.
Loads == pc = "ready" /\ pc' = "loaded"

HasFormat2(fileContent) ==
  "format" \in fileContent.keys /\ fileContent.format = "2"
NoFormatButBlocks(fileContent) ==
  "format" \notin fileContent.keys /\ "blocks" \in fileContent.keys

\* C16: _load of a document whose format is neither 2 nor absent with a
\* blocks key reports "Unsupported file format", sets no workspace state,
\* calls neither setToolbox nor selectKernel and leaves the manager and the
\* session's requests as they were.
C16_UnsupportedFormatFailsVisibly ==
  [][ (Loads /\ ~HasFormat2(model) /\ ~NoFormatButBlocks(model)) =>
        /\ reports' = <<"Unsupported file format">>
        /\ calls' = <<>>
        /\ emitted' = <<>>
        /\ UNCHANGED <<workspace, requests, _toolbox, _allowedBlocks,
                       _registry, _selectedKernel, _generator>>
    ]_vars

\* A document of format 1 that carries a workspace and metadata was loaded
\* after the toolbox "other" had been selected: nothing of it was applied.
C16_Witness ==
  /\ pc = "loaded"
  /\ model.format = "1"
  /\ model.metadata = FullMetadata
  /\ lastCall = [op |-> "_load", name |-> Undefined, was |-> "other"]
  /\ _toolbox = "other"
  /\ reports = <<"Unsupported file format">>
  /\ workspace = UndefinedWorkspace
  /\ calls = <<>>
  /\ requests = <<>>

----------------------------------------------------------------------------
(* C17 *)

\* C17 as stated: _load of a document with no format and a blocks key sets
\* the workspace state to the whole document, calls no method of the
\* manager, leaves the toolbox name and the requests alone, emits nothing.
C17_Original ==
  [][ (Loads /\ NoFormatButBlocks(model)) =>
        /\ workspace' = model
        /\ calls' = <<>>
        /\ emitted' = <<>>
        /\ UNCHANGED <<_toolbox, requests>>
    ]_vars

\* C17 as amended: the same of a document with no format whose blocks key
\* holds a truthy value (an object, as Blockly writes it).
C17_LegacyLoadsWholePayload ==
  [][ (Loads /\ "format" \notin model.keys
       /\ Truthy(model.keys, "blocks", model.blocks)) =>
        /\ workspace' = model
        /\ reports' = <<>>
        /\ calls' = <<>>
        /\ emitted' = <<>>
        /\ UNCHANGED <<_toolbox, requests>>
    ]_vars

\* A legacy document that also carries metadata was loaded whole, and its
\* metadata was not applied.
C17_Witness ==
  /\ pc = "loaded"
  /\ lastCall.op = "_load"
  /\ "format" \notin model.keys
  /\ model.blocks = "truthy"
  /\ model.metadata = FullMetadata
  /\ workspace = model
  /\ calls = <<>>
  /\ _toolbox = "default"
  /\ requests = <<>>

----------------------------------------------------------------------------
(* C18 *)

\* C18: _load of a document of format 2 always sets the workspace state to
\* its workspace; it switches to metadata.toolbox exactly when that name is
\* registered, and otherwise leaves the toolbox as it is and, for a name that
\* is not registered, reports it; it asks the session for metadata.kernel
\* exactly when that is present, is not "No kernel" and is in the session's
\* catalog, and otherwise asks for nothing and leaves the kernel alone.
C18_Format2AppliesValidNames ==
  [][ (Loads /\ HasFormat2(model)) =>
        LET metadata == model.metadata
            hasToolbox == "metadata" \in model.keys
                          /\ "toolbox" \in metadata.keys
            hasKernel == "metadata" \in model.keys
                         /\ "kernel" \in metadata.keys
            registered == hasToolbox
                          /\ metadata.toolbox \in DOMAIN _registry.toolboxes
            inCatalog == hasKernel /\ metadata.kernel # "No kernel"
                         /\ metadata.kernel \in DOMAIN kernelspecs
        IN
        /\ workspace' = model.workspace
        /\ IF registered
             THEN /\ Call("setToolbox", metadata.toolbox) \in Range(calls')
                  /\ _toolbox' = metadata.toolbox
             ELSE /\ Switches([calls |-> calls']) = {}
                  /\ UNCHANGED _toolbox
                  /\ hasToolbox => "Unknown toolbox" \in Range(reports')
        /\ IF inCatalog
             THEN requests' = Append(requests, metadata.kernel)
             ELSE UNCHANGED requests
        /\ UNCHANGED <<_selectedKernel, _generator>>
    ]_vars

----------------------------------------------------------------------------
(* C19 *)

\* C19: dispose disconnects the manager and nothing connects it again; a
\* kernelChanged notification of the session after that changes neither the
\* selected kernel nor the generator and emits nothing, while before it
\* every notification for a kernel of the catalog selects that kernel and
\* emits "kernel".
C19_DisposeDetaches ==
  [][ /\ lastCall'.op = "dispose" => ~connected'
      /\ ~connected => ~connected'
      /\ lastCall'.op = "kernelChanged" =>
           IF connected
             THEN lastCall'.name \in DOMAIN kernelspecs =>
                    kernel' = lastCall'.name /\ emitted' = <<"kernel">>
             ELSE /\ UNCHANGED <<_selectedKernel, _generator>>
                  /\ emitted' = <<>>
    ]_vars

\* A disposed manager holding python3 stayed so when the session's kernel
\* became ir.
C19_Witness ==
  /\ ~connected
  /\ lastCall.op = "kernelChanged"
  /\ lastCall.name = "ir"
  /\ lastCall.was = "python3"
  /\ kernel = "python3"
  /\ _generator = "python"
  /\ emitted = <<>>

----------------------------------------------------------------------------
(* C20 *)

\* C20: what a listener read while it handled each notification of the last
\* call is what the manager holds when the call has returned: for "toolbox"
\* the new toolbox name and allow-list, with the selected toolbox's
\* annotations already those the filter leaves for them; for "kernel" the
\* new kernel together with the generator of its language.
C20_ListenerSeesCompletedUpdate ==
  /\ Len(seen) = Len(emitted)
  /\ \A i \in 1..Len(seen) :
       /\ seen[i] = Listener
       /\ emitted[i] = "toolbox" =>
            filterContents(build, seen[i].contents,
                           seen[i].allowedBlocks).contents = seen[i].contents
       /\ emitted[i] = "kernel" =>
            /\ seen[i].kernel = lastCall.name
            /\ seen[i].generator =
                 generators_get(kernelspecs[lastCall.name].language)

\* A listener handling "kernel" saw python3 with the python generator after
\* the manager had held ir with no generator.
C20_Witness ==
  /\ lastCall.op = "kernelChanged"
  /\ lastCall.was = "ir"
  /\ emitted = <<"kernel">>
  /\ Len(seen) = 1
  /\ seen[1].kernel = "python3"
  /\ seen[1].generator = "python"
  /\ "r" \notin _generators

----------------------------------------------------------------------------
(* C21 *)

\* A node of unknown shape: neither a category, a block nor a separator.
IsUnknown(item) ==
  /\ ~IsStaticCategory(item) /\ ~IsBlock(item) /\ ~IsDynamicCategory(item)
  /\ ~IsSeparator(item)
  /\ toUpperCase(item.kind) # "CATEGORY"

Annotations == {"hidden", "disabled", "disabledReasons"}

\* A node of unknown shape is never annotated.
UnknownNodeUntouched ==
  \A n \in Nodes(toolbox.contents) :
    IsUnknown(n) =>
      /\ n.keys \cap Annotations = {}
      /\ n.hidden = Undefined /\ n.disabled = Undefined
      /\ n.disabledReasons = <<>>

\* C21: in the selected toolbox every node of unknown shape carries no
\* annotation of the filter, and counts as visible content of its list: a
\* static category that holds a node of unknown shape is not hidden,
\* whatever the allow-list.
C21_UnknownNodeCountsVisible ==
  /\ UnknownNodeUntouched
  /\ \A c \in StaticCategories(toolbox.contents) :
       (\E n \in Range(c.contents) : IsUnknown(n)) => ~Hidden(c)

----------------------------------------------------------------------------
(* C22 *)

\* The step is a filter run of the first manager over the toolbox named n.
FilterRunOfA(n) ==
  /\ lastCall'.op \in {"setToolbox", "setAllowedBlocks"}
  /\ emitted' = <<"toolbox">>
  /\ _toolbox' = n
  /\ _registry'.toolboxes[n].contents =
       filterContents(build, _registry.toolboxes[n].contents,
                      _allowedBlocks').contents

\* The step is a filter run of the second manager over the toolbox named n.
FilterRunOfB(n) ==
  /\ lastCall'.op \in {"managerB.setToolbox", "managerB.setAllowedBlocks"}
  /\ managerB'.emitted = <<"toolbox">>
  /\ managerB'._toolbox = n
  /\ _registry'.toolboxes[n].contents =
       filterContents(build, _registry.toolboxes[n].contents,
                      managerB'._allowedBlocks).contents

\* C22: when the second manager, selecting the same toolbox as the first,
\* calls setAllowedBlocks(L), the tree the first manager's toolbox getter
\* returns is afterwards the tree filtered for L, the first manager's own
\* name and allow-list are unchanged and its signal emits nothing; and a
\* toolbox's tree changes only in a filter run of one of the two managers
\* over that toolbox, which leaves it as that run's filter returns it.
C22_ManagersShareAnnotations ==
  [][ /\ (lastCall'.op = "managerB.setAllowedBlocks"
          /\ managerB._toolbox = _toolbox) =>
           /\ toolbox'.contents =
                filterContents(build, toolbox.contents,
                               managerB'._allowedBlocks).contents
           /\ UNCHANGED <<_toolbox, _allowedBlocks>>
           /\ emitted' = <<>>
      /\ \A n \in DOMAIN _registry.toolboxes :
           _registry'.toolboxes[n] # _registry.toolboxes[n] =>
             FilterRunOfA(n) \/ FilterRunOfB(n)
    ]_vars

\* The second manager set the list ["a"] while the first, on the same
\* toolbox, holds the undefined list: the first one's tree has block B
\* disabled, and its signal emitted nothing.
C22_Witness ==
  /\ lastCall.op = "managerB.setAllowedBlocks"
  /\ managerB._toolbox = "default" /\ _toolbox = "default"
  /\ _allowedBlocks.undefined
  /\ managerB._allowedBlocks = [undefined |-> FALSE, blocks |-> {"a"}]
  /\ emitted = <<>>
  /\ \E b \in Blocks(toolbox.contents) :
       b.type = "B" /\ b.disabled = BoolTrue

----------------------------------------------------------------------------
(* C23 *)

\* The step is a save that writes the document.
Saves == model' # model

\* C23: kernel is "No kernel" at construction; a kernelChanged notification
\* that reaches the manager for a kernel of the catalog makes kernel that
\* kernel's name, and no other step changes kernel, a notification with a
\* null new value included: kernel never returns to "No kernel"; a save
\* writes the kernel held then into metadata.kernel.
C23_KernelNeverUnset ==
  /\ kernel = "No kernel"
  /\ [][ /\ kernel # "No kernel" => kernel' # "No kernel"
         /\ IF Saves
              THEN /\ kernel' = kernel
                   /\ "kernel" \in model'.metadata.keys
                   /\ model'.metadata.kernel = kernel
              ELSE IF Notified /\ lastCall'.name \in DOMAIN kernelspecs
                THEN kernel' = lastCall'.name
                ELSE kernel' = kernel
       ]_vars

\* The manager held python3, the session's kernel was shut down and the
\* manager still reports python3; the document saved after that, before any
\* load, carries python3 in metadata.kernel.
C23_Witness ==
  /\ lastCall.op = "kernelChanged"
  /\ lastCall.name = Null
  /\ lastCall.was = "python3"
  /\ kernel = "python3"
  /\ pc = "ready"
  /\ model = SavedContent
  /\ model.metadata.kernel = "python3"

====
